---- MODULE Spec2Model ----
(***************************************************************************)
(* ECG_Extract.py: classification of a free-text ECG report as a new       *)
(* finding of MI / ischemia.                                               *)
(*                                                                         *)
(* Text is modelled as a sequence of tokens.  A token is one phrase of     *)
(* the report: the literal text a regular expression of the program looks  *)
(* for (in one of its letter cases), a white-space character, or a word    *)
(* no pattern matches.  A token that carries a date (DD-Mon-YYYY) holds    *)
(* the three fields of the date.  Every regular expression of the program  *)
(* is modelled by what it matches on such a sequence: leftmost match,      *)
(* greedy repetition, `.' that does not match a newline, case folding      *)
(* only where the code passes re.I.                                        *)
(***************************************************************************)
EXTENDS Integers, Sequences, FiniteSets, TLC

VARIABLES report, ref_date, pc, excluded, hist, result

vars == <<report, ref_date, pc, excluded, hist, result>>

(***************************************************************************)
(* Tokens                                                                  *)
(***************************************************************************)
Tok(s) == [s |-> s, dd |-> 0, mon |-> "", yyyy |-> 0]

DTok(s, dd, mon, yyyy) == [s |-> s, dd |-> dd, mon |-> mon, yyyy |-> yyyy]

QTcText == "QTc Int : 440 ms"
ReferredText == "Referred By:"
ComparedText == "When compared with"
ComparedECGText == "When compared with ECG of DD-Mon-YYYY"
CitedText == "(cited on or before DD-Mon-YYYY)"
AgeText == "age undetermined"
NoChangeText == "no significant change"
AcuteMIText == "* acute mi"
InfarcText == "infarc"
IschemText == "ischem"
IschaemText == "ischaem"
Space == " "
Newline == "\n"
Word == "sinus rhythm"

QTC == Tok(QTcText)
REF == Tok(ReferredText)
SP == Tok(Space)
NL == Tok(Newline)
TXT == Tok(Word)
Clause(dd, mon, yyyy) == DTok(ComparedECGText, dd, mon, yyyy)
Cited(dd, mon, yyyy) == DTok(CitedText, dd, mon, yyyy)

\* str.lower() on the texts of the alphabet (what re.I folds).
Lower(s) ==
  CASE s = "No Significant Change" -> NoChangeText
    [] s = "* Acute MI" -> AcuteMIText
    [] s = "INFARC" -> InfarcText
    [] s = "Ischem" -> IschemText
    [] s = "ISCHAEM" -> IschaemText
    [] s = "Age Undetermined" -> AgeText
    [] OTHER -> s

Min(S) == CHOOSE x \in S : \A y \in S : x <= y
Max(S) == CHOOSE x \in S : \A y \in S : x >= y

SeqsUpTo(A, n) == UNION {[1..k -> A] : k \in 0..n}

(***************************************************************************)
(* datetime                                                                *)
(***************************************************************************)
MonthNames == <<"Jan", "Feb", "Mar", "Apr", "May", "Jun",
                "Jul", "Aug", "Sep", "Oct", "Nov", "Dec">>

\* %b: the month number of an abbreviation, 0 when it is none.
MonthNum(mon) ==
  IF \E i \in 1..12 : MonthNames[i] = mon
  THEN CHOOSE i \in 1..12 : MonthNames[i] = mon
  ELSE 0

IsLeap(y) == (y % 4 = 0) /\ ((y % 100 # 0) \/ (y % 400 = 0))

DaysInMonth(y, m) ==
  IF m = 2 THEN (IF IsLeap(y) THEN 29 ELSE 28)
  ELSE IF m \in {4, 6, 9, 11} THEN 30 ELSE 31

RECURSIVE DaysBeforeMonth(_, _)
DaysBeforeMonth(y, m) ==
  IF m <= 1 THEN 0 ELSE DaysBeforeMonth(y, m - 1) + DaysInMonth(y, m - 1)

\* datetime.toordinal(): days since 01-Jan-0001 (day 1).
ToOrdinal(d) ==
  LET y == d.year - 1
  IN  y * 365 + (y \div 4) - (y \div 100) + (y \div 400)
      + DaysBeforeMonth(d.year, d.month) + d.day

\* datetime.strptime(s, '%d-%b-%Y') raises ValueError.
strptime_raises(t) ==
  \/ MonthNum(t.mon) = 0
  \/ t.yyyy < 1
  \/ t.dd < 1
  \/ t.dd > DaysInMonth(t.yyyy, MonthNum(t.mon))

\* datetime.strptime(s, '%d-%b-%Y'): midnight of the day.
strptime(t) ==
  [year |-> t.yyyy, month |-> MonthNum(t.mon), day |-> t.dd, second |-> 0]

\* datetime - datetime: a normalised timedelta (0 <= seconds < one day).
datetime_sub(a, b) ==
  LET secs == a.second - b.second
  IN  [days |-> ToOrdinal(a) - ToOrdinal(b) + (IF secs < 0 THEN -1 ELSE 0),
       seconds |-> IF secs < 0 THEN secs + 24 * 60 * 60 ELSE secs]

timedelta(days) == [days |-> days, seconds |-> 0]

\* Mutant of timedelta_gt: the boundary of one day included.
timedelta_ge(a, b) ==
  \/ a.days > b.days
  \/ a.days = b.days /\ a.seconds >= b.seconds

\* timedelta.__gt__: compares (days, seconds) in order.
timedelta_gt(a, b) ==
  \/ a.days > b.days
  \/ a.days = b.days /\ a.seconds > b.seconds

(***************************************************************************)
(* Regular expressions                                                     *)
(***************************************************************************)
IsSpace(t) == t.s \in {Space, Newline}

\* \d{2}-\w{3}-\d{4}: every date token of the alphabet is two digits, three
\* word characters and four digits.
DateShape(t) == t.dd \in 0..99 /\ t.mon # "" /\ t.yyyy \in 0..9999

\* re.search(pattern, text, flags=re.I) for a literal pattern.
search_i(pattern, text) == \E i \in 1..Len(text) : Lower(text[i].s) = pattern

\* 'When compared with' matches at a token that starts with the phrase.
IsComparedWith(t) == t.s \in {ComparedText, ComparedECGText}

\* 'When compared with ECG of (\d{2}-\w{3}-\d{4})'
IsComparedWithECG(t) == t.s = ComparedECGText /\ DateShape(t)

\* '\(cited on or before \d{2}-\w{3}-\d{4}\)'
IsCitedOn(t) == t.s = CitedText /\ DateShape(t)

\* 'age\s*undetermined', the two words on one line.
IsAgeUndetermined(t) == t.s = AgeText

\* str.strip()
RECURSIVE strip(_)
strip(text) ==
  IF text = <<>> THEN text
  ELSE IF IsSpace(text[1]) THEN strip(Tail(text))
  ELSE IF IsSpace(text[Len(text)]) THEN strip(SubSeq(text, 1, Len(text) - 1))
  ELSE text

\* Mutant of findall: the last clause of the text instead of the first.
RECURSIVE findall_last(_, _)
findall_last(text, pos) ==
  LET starts == {i \in pos..Len(text) : IsComparedWithECG(text[i])}
  IN  IF starts = {} THEN <<>>
      ELSE LET i == Max(starts)
               end == Len(text)
           IN  <<[date |-> text[i], rest |-> SubSeq(text, i + 1, end)]>>
               \o findall_last(text, end + 1)

\* re.findall('When compared with ECG of (date)((?:.|\n)*)', text) from pos:
\* the leftmost match, whose second group is greedy and runs to the end of
\* the text, then the matches after it.
RECURSIVE findall(_, _)
findall(text, pos) ==
  LET starts == {i \in pos..Len(text) : IsComparedWithECG(text[i])}
  IN  IF starts = {} THEN <<>>
      ELSE LET i == Min(starts)
               end == Len(text)
           IN  <<[date |-> text[i], rest |-> SubSeq(text, i + 1, end)]>>
               \o findall(text, end + 1)

\* The ends of the matches of '.*<annotation>' that start at p, the
\* annotation matching at the positions ann: an annotation at q >= p with no
\* newline from p to q.
LineEnds(text, p, ann) ==
  {q \in ann : q >= p /\ \A k \in p..(q - 1) : text[k].s # Newline}

\* re.sub('(.*<annotation>)', '', text) from pos: the leftmost match start,
\* the greedy `.*' taking the last annotation of the line; the text between
\* matches is kept.
RECURSIVE sub_line_through(_, _, _)
sub_line_through(ann, text, pos) ==
  LET starts == {p \in pos..Len(text) : LineEnds(text, p, ann) # {}}
  IN  IF starts = {} THEN SubSeq(text, pos, Len(text))
      ELSE LET p == Min(starts)
               q == Max(LineEnds(text, p, ann))
           IN  SubSeq(text, pos, p - 1) \o sub_line_through(ann, text, q + 1)

(***************************************************************************)
(* The functions of ECG_Extract.py                                         *)
(***************************************************************************)
\* The value of `body': a str, or the False that extract_body returns.
Str(text) == [str |-> TRUE, text |-> text]
NoBody == [str |-> FALSE, text |-> <<>>]

\* Mutant of exclude_no_change: the date parsed before the phrase is searched.
exclude_no_change_parse_first(text, ref) ==
  LET hits == findall(text, 1)
  IN  IF Len(hits) > 0
      THEN LET hit == hits[1]
           IN  IF strptime_raises(hit.date) THEN "ValueError"
               ELSE IF /\ search_i(NoChangeText, hit.rest)
                       /\ timedelta_gt(datetime_sub(ref, strptime(hit.date)),
                                       timedelta(1))
                    THEN "True"
                    ELSE "False"
      ELSE "False"

\* line 42-51
exclude_no_change(text, ref) ==
  LET hits == findall(text, 1)
  IN  IF Len(hits) > 0
      THEN LET hit == hits[1]
           IN  IF search_i(NoChangeText, hit.rest)
               THEN IF strptime_raises(hit.date) THEN "ValueError"
                    ELSE IF timedelta_gt(datetime_sub(ref, strptime(hit.date)),
                                         timedelta(1))
                         THEN "True"
                         ELSE "False"
               ELSE "False"
      ELSE "False"

\* 'QTc\s*Int\s*:\s*\d+\s*ms((?:.|\n)*)Referred\s*By:': the leftmost marker
\* that some 'Referred By:' follows; the greedy group runs to the last one.
extract_body(text) ==
  LET refs(i) == {j \in (i + 1)..Len(text) : text[j].s = ReferredText}
      starts == {i \in 1..Len(text) : text[i].s = QTcText /\ refs(i) # {}}
  IN  IF starts = {} THEN NoBody
      ELSE LET i == Min(starts)
               j == Max(refs(i))
           IN  Str(strip(SubSeq(text, i + 1, j - 1)))

\* The positions of text where the annotation matches.
CitedOnMatches(text) == {q \in 1..Len(text) : IsCitedOn(text[q])}

AgeUndeterminedMatches(text) == {q \in 1..Len(text) : IsAgeUndetermined(text[q])}

\* Mutant of remove_cited_on: `.' matches the newline too (re.S).
remove_cited_on_dotall(text) ==
  LET ann == CitedOnMatches(text)
  IN  IF ann = {} THEN text ELSE SubSeq(text, Max(ann) + 1, Len(text))

\* re.sub('(.*\(cited on or before \d{2}-\w{3}-\d{4}\))', '', text)
remove_cited_on(text) == sub_line_through(CitedOnMatches(text), text, 1)

\* The tokens of text at the positions keep, in order.
Pick(text, keep) ==
  LET F[i \in 0..Len(text)] ==
        IF i = 0 THEN <<>>
        ELSE IF i \in keep THEN Append(F[i - 1], text[i]) ELSE F[i - 1]
  IN  F[Len(text)]

\* Mutant of remove_age_undetermined: the pattern without its leading `.*'.
remove_age_undetermined_only(text) ==
  Pick(text, (1..Len(text)) \ AgeUndeterminedMatches(text))

\* re.sub('(.*age\s*undetermined)', '', text)
remove_age_undetermined(text) ==
  sub_line_through(AgeUndeterminedMatches(text), text, 1)

\* Mutant of remove_compared_with: `.*' that stops at the end of the line.
remove_compared_with_line(text) ==
  Pick(text, {i \in 1..Len(text) :
                ~ \E q \in 1..i : /\ IsComparedWith(text[q])
                                  /\ \A k \in q..i : text[k].s # Newline})

\* re.sub('When compared with(.|\n)*', '', text)
remove_compared_with(text) ==
  LET starts == {i \in 1..Len(text) : IsComparedWith(text[i])}
  IN  IF starts = {} THEN text ELSE SubSeq(text, 1, Min(starts) - 1)

\* Mutant of flag_acutemi: re.I forgotten.
flag_acutemi_cased(text) == \E i \in 1..Len(text) : text[i].s = AcuteMIText

flag_acutemi(text) == search_i(AcuteMIText, text)

flag_infarction(text) == search_i(InfarcText, text)

flag_ischemia(text) == search_i(IschemText, text) \/ search_i(IschaemText, text)

(***************************************************************************)
(* mi_finding, one step per statement                                      *)
(***************************************************************************)
body == hist[Len(hist)]

\* Mutant of ExcludeNoChange: the early return forgotten.
ExcludeNoChange_fallthrough ==
  /\ pc = "exclude"
  /\ excluded' = exclude_no_change(report, ref_date)
  /\ IF excluded' = "ValueError"
     THEN pc' = "done" /\ result' = "ValueError"
     ELSE pc' = "extract" /\ result' = result
  /\ UNCHANGED <<report, ref_date, hist>>

\* line 13-14
ExcludeNoChange ==
  /\ pc = "exclude"
  /\ excluded' = exclude_no_change(report, ref_date)
  /\ IF excluded' = "True"
     THEN pc' = "done" /\ result' = "False"
     ELSE IF excluded' = "ValueError"
     THEN pc' = "done" /\ result' = "ValueError"
     ELSE pc' = "extract" /\ result' = result
  /\ UNCHANGED <<report, ref_date, hist>>

\* line 16
ExtractBody ==
  /\ pc = "extract"
  /\ hist' = Append(hist, extract_body(report))
  /\ pc' = "cited"
  /\ UNCHANGED <<report, ref_date, excluded, result>>

\* A stripper step: re.sub raises TypeError when body is not a str.
Strip(at, next, out) ==
  /\ pc = at
  /\ IF body.str
     THEN hist' = Append(hist, Str(out)) /\ pc' = next /\ result' = result
     ELSE hist' = hist /\ pc' = "done" /\ result' = "TypeError"
  /\ UNCHANGED <<report, ref_date, excluded>>

\* line 17
RemoveCitedOn == Strip("cited", "age", remove_cited_on(body.text))

\* line 18
RemoveAgeUndetermined == Strip("age", "compared", remove_age_undetermined(body.text))

\* line 19
RemoveComparedWith == Strip("compared", "acutemi", remove_compared_with(body.text))

\* A flagger step: return True when the flag is raised, else go on.
Flag(at, next, flag) ==
  /\ pc = at
  /\ IF flag
     THEN pc' = "done" /\ result' = "True"
     ELSE IF next = "done"
     THEN pc' = "done" /\ result' = "False"
     ELSE pc' = next /\ result' = result
  /\ UNCHANGED <<report, ref_date, excluded, hist>>

\* line 21-22
FlagAcuteMI == Flag("acutemi", "infarction", flag_acutemi(body.text))

\* line 24-25
FlagInfarction == Flag("infarction", "ischemia", flag_infarction(body.text))

\* line 27-30
FlagIschemia == Flag("ischemia", "done", flag_ischemia(body.text))

Next ==
  \/ ExcludeNoChange
  \/ ExtractBody
  \/ RemoveCitedOn
  \/ RemoveAgeUndetermined
  \/ RemoveComparedWith
  \/ FlagAcuteMI
  \/ FlagInfarction
  \/ FlagIschemia

\* The state at the call of mi_finding(r, d).
Call(r, d) ==
  /\ report = r
  /\ ref_date = d
  /\ pc = "exclude"
  /\ excluded = "unset"
  /\ hist = <<>>
  /\ result = "pending"

DateTime(year, month, day, second) ==
  [year |-> year, month |-> month, day |-> day, second |-> second]

(***************************************************************************)
(* Inputs                                                                  *)
(***************************************************************************)
MaxGateLen == 4
MaxReportLen == 5
MaxBodyLen == 4
MaxFlagLen == 4

NoChange == Tok(NoChangeText)
NoChangeUpper == Tok("No Significant Change")
ComparedWith == Tok(ComparedText)
AgeUndetermined == Tok(AgeText)
AgeUpper == Tok("Age Undetermined")
AcuteMI == Tok(AcuteMIText)
AcuteMIUpper == Tok("* Acute MI")
AcuteNoStar == Tok("acute mi")
Infarc == Tok(InfarcText)
InfarcUpper == Tok("INFARC")
Ischem == Tok(IschemText)
IschaemUpper == Tok("ISCHAEM")

\* Dates of the comparison clause that parse, and dates that do not: a day
\* that the month does not have, a month that is no month.
GoodDates == {Clause(31, "Dec", 2019), Clause(1, "Jan", 2020)}
BadDates == {Clause(29, "Feb", 2019), Clause(1, "Xyz", 2020)}

RefDates ==
  {DateTime(2019, 12, 31, 0), DateTime(2020, 1, 1, 0), DateTime(2020, 1, 1, 1),
   DateTime(2020, 1, 2, 0), DateTime(2020, 1, 2, 1)}

GateAlphabet == GoodDates \cup BadDates \cup {NoChange, NoChangeUpper, TXT}

ReportAlphabet == {QTC, REF, Clause(1, "Jan", 2020), NoChange, InfarcUpper, SP}

ReportRefDates == {DateTime(2020, 1, 2, 0), DateTime(2020, 1, 3, 0)}

BodyAlphabet ==
  {Infarc, IschaemUpper, Cited(1, "Jan", 2020), AgeUndetermined, AgeUpper,
   ComparedWith, NL, TXT}

FlagAlphabet ==
  {AcuteMI, AcuteMIUpper, AcuteNoStar, InfarcUpper, Ischem, IschaemUpper,
   Cited(1, "Jan", 2020), ComparedWith, TXT}

\* A report of the template: header, body, footer.
Template(b) == <<QTC>> \o b \o <<REF>>

(***************************************************************************)
(* Specifications                                                          *)
(***************************************************************************)
\* mi_finding on whole reports.
Init ==
  \E r \in SeqsUpTo(ReportAlphabet, MaxReportLen) : \E d \in ReportRefDates :
    Call(r, d)

Spec == Init /\ [][Next]_vars

\* exclude_no_change on its own.
InitGate ==
  \E r \in SeqsUpTo(GateAlphabet, MaxGateLen) : \E d \in RefDates : Call(r, d)

NextGate == ExcludeNoChange

SpecGate == InitGate /\ [][NextGate]_vars

\* mi_finding on template reports whose body holds annotations.
InitBody ==
  \E b \in SeqsUpTo(BodyAlphabet, MaxBodyLen) :
    Call(Template(b), DateTime(2020, 1, 2, 0))

SpecBody == InitBody /\ [][Next]_vars

\* mi_finding on template reports whose body holds the markers.
InitFlag ==
  \E b \in SeqsUpTo(FlagAlphabet, MaxFlagLen) :
    Call(Template(b), DateTime(2020, 1, 2, 0))

SpecFlag == InitFlag /\ [][Next]_vars

(***************************************************************************)
(* Properties of exclude_no_change (SpecGate)                              *)
(***************************************************************************)
Returned == pc # "exclude"

ClausePositions == {i \in 1..Len(report) : report[i].s = ComparedECGText}

FirstClause == Min(ClausePositions)

\* 'no significant change', in either letter case, somewhere after position i.
NoChangeAfter(i) ==
  \E j \in (i + 1)..Len(report) : report[j] \in {NoChange, NoChangeUpper}

\* The calendar: the days of the dates of the inputs, counted from 31-Dec-2019.
DayOfRef(ref) ==
  CASE ref.year = 2019 /\ ref.month = 12 /\ ref.day = 31 -> 0
    [] ref.year = 2020 /\ ref.month = 1 /\ ref.day = 1 -> 1
    [] ref.year = 2020 /\ ref.month = 1 /\ ref.day = 2 -> 2
    [] ref.year = 2020 /\ ref.month = 1 /\ ref.day = 3 -> 3

DayOfClause(clause) ==
  CASE clause = Clause(31, "Dec", 2019) -> 0
    [] clause = Clause(1, "Jan", 2020) -> 1

\* Seconds from midnight of the clause's date to the reference date.
Elapsed(ref, clause) ==
  (DayOfRef(ref) - DayOfClause(clause)) * 86400 + ref.second

\* What the clause at position i alone decides.
Verdict(i) ==
  IF ~NoChangeAfter(i) THEN "False"
  ELSE IF report[i] \in BadDates THEN "ValueError"
  ELSE IF Elapsed(ref_date, report[i]) > 86400 THEN "True"
  ELSE "False"

\* C3: exclude_no_change returns True if and only if the report has a
\* comparison clause, 'no significant change' (in any letter case) follows its
\* date, and the reference date is more than one day after the parsed date; a
\* difference of one day or less returns False.
C3_ExcludeIffMoreThanOneDay ==
  Returned =>
    LET more == /\ ClausePositions # {}
                /\ NoChangeAfter(FirstClause)
                /\ report[FirstClause] \in GoodDates
                /\ Elapsed(ref_date, report[FirstClause]) > 86400
        atmost == /\ ClausePositions # {}
                  /\ NoChangeAfter(FirstClause)
                  /\ report[FirstClause] \in GoodDates
                  /\ Elapsed(ref_date, report[FirstClause]) <= 86400
    IN  /\ (excluded = "True") <=> more
        /\ atmost => excluded = "False"

\* A difference of one day and one second, the phrase in capitals: excluded.
C3_Witness ==
  /\ Returned
  /\ excluded = "True"
  /\ ClausePositions # {}
  /\ report[FirstClause] \in GoodDates
  /\ Elapsed(ref_date, report[FirstClause]) = 86401
  /\ NoChangeUpper \in {report[j] : j \in 1..Len(report)}
  /\ NoChange \notin {report[j] : j \in 1..Len(report)}

\* C5 as stated: a clause whose date does not parse makes exclude_no_change
\* raise, whether or not 'no significant change' follows the date.
C5_BadDateAlwaysRaises ==
  (Returned /\ ClausePositions # {} /\ report[FirstClause] \in BadDates)
    => excluded = "ValueError"

\* C5 amended: a first clause whose date does not parse makes
\* exclude_no_change raise exactly when 'no significant change' follows the
\* date; when it does not, the date is never parsed and the result is False.
C5_BadDateRaisesWhenNoChangeFollows ==
  (Returned /\ ClausePositions # {} /\ report[FirstClause] \in BadDates)
    => IF NoChangeAfter(FirstClause)
       THEN excluded = "ValueError"
       ELSE excluded = "False"

\* 29-Feb of a year that is no leap year, the phrase after it: ValueError.
C5_Witness ==
  /\ Returned
  /\ ClausePositions # {}
  /\ report[FirstClause] = Clause(29, "Feb", 2019)
  /\ NoChangeAfter(FirstClause)
  /\ excluded = "ValueError"

\* C8: with several comparison clauses the outcome is the one the first
\* clause decides: its date against ref_date, and 'no significant change'
\* searched in everything after its date, later clauses included.
C8_FirstClauseDecides ==
  (Returned /\ Cardinality(ClausePositions) >= 2) => excluded = Verdict(FirstClause)

\* Two clauses with different dates, the phrase after the second: the first
\* clause excludes where the second one alone would not.
C8_Witness ==
  /\ Returned
  /\ Cardinality(ClausePositions) >= 2
  /\ LET second == Min(ClausePositions \ {FirstClause})
     IN  /\ report[second] # report[FirstClause]
         /\ ~ \E j \in 1..second : report[j] \in {NoChange, NoChangeUpper}
         /\ Verdict(second) = "False"
  /\ excluded = "True"

(***************************************************************************)
(* Properties of mi_finding on whole reports (Spec)                        *)
(***************************************************************************)
Done == pc = "done"

\* A 'QTc Int' marker with a 'Referred By:' somewhere after it.
MarkerPair == \E i, j \in 1..Len(report) : i < j /\ report[i] = QTC /\ report[j] = REF

\* C1 as stated: when the marker pair is not found and the report is not
\* excluded, mi_finding completes without raising and returns False.
C1_ExtractionFailureReturnsFalse ==
  (Done /\ excluded = "False" /\ ~MarkerPair) => result = "False"

C4_BodyEndsAtNextReferredBy ==
  (Len(hist) >= 1 /\ hist[1].str) =>
    LET i == Min({k \in 1..Len(report) : report[k] = QTC})
        j == Min({k \in (i + 1)..Len(report) : report[k] = REF})
    IN  hist[1].text = strip(SubSeq(report, i + 1, j - 1))

(***************************************************************************)
(* Properties of the flaggers (SpecFlag)                                   *)
(***************************************************************************)
MarkerTokens == {AcuteMI, AcuteMIUpper, Infarc, InfarcUpper, Ischem, IschaemUpper}

Tokens(text) == {text[i] : i \in 1..Len(text)}

\* C6: on a report that is not excluded and whose body is extracted,
\* mi_finding returns True if and only if the cleaned body (extracted body
\* after remove_cited_on, remove_age_undetermined, remove_compared_with, in
\* this order) holds '* acute mi', 'infarc', 'ischem' or 'ischaem' in some
\* letter case; '* acute mi' in any letter case always gives True.
C6_TrueIffMarkerInCleanedBody ==
  (Done /\ excluded = "False" /\ Len(hist) >= 1 /\ hist[1].str) =>
    /\ Len(hist) = 4
    /\ hist[4].text =
         remove_compared_with(remove_age_undetermined(remove_cited_on(hist[1].text)))
    /\ (result = "True") <=> (Tokens(hist[4].text) \cap MarkerTokens # {})
    /\ (result = "False") <=> (Tokens(hist[4].text) \cap MarkerTokens = {})
    /\ (Tokens(hist[4].text) \cap {AcuteMI, AcuteMIUpper} # {}) => result = "True"

\* '* Acute MI' in capitals is the only marker of the cleaned body: True.
C6_Witness ==
  /\ Done
  /\ Len(hist) = 4
  /\ Tokens(hist[4].text) \cap MarkerTokens = {AcuteMIUpper}
  /\ result = "True"

(***************************************************************************)
(* Properties of the strippers (SpecBody)                                  *)
(***************************************************************************)
IsInfarc(t) == t \in {Infarc, InfarcUpper}

IsCited(t) == t.s = CitedText

IsAnnotation(t) == t.s = CitedText \/ t = AgeUndetermined

\* Position q is after position i, on the same line.
SameLineAfter(text, i, q) == i < q /\ \A k \in i..q : text[k] # NL

\* Every marker of the text has an annotation after it on its line.
AllAnnotated(text) ==
  \A i \in 1..Len(text) :
    text[i] \in MarkerTokens =>
      \E q \in 1..Len(text) : SameLineAfter(text, i, q) /\ IsAnnotation(text[q])

\* The positions the two line strippers leave: those with no annotation at
\* or after them on their line.
LeftInPlace(text) ==
  {i \in 1..Len(text) :
     ~ \E q \in i..Len(text) :
         IsAnnotation(text[q]) /\ \A k \in i..(q - 1) : text[k] # NL}

\* C7 as stated: an 'infarc' marker before a cited-on clause, on the same line
\* or not, is still flagged after remove_cited_on.
C7_CitedOnKeepsEarlierInfarc ==
  Len(hist) >= 2 =>
    LET b == hist[1].text
    IN  (\E i, q \in 1..Len(b) : i < q /\ IsInfarc(b[i]) /\ IsCited(b[q]))
          => flag_infarction(hist[2].text)

\* C7 amended: an 'infarc' marker before a cited-on clause is still flagged
\* after remove_cited_on when no cited-on clause follows it on its own line;
\* when every 'infarc' marker has a cited-on clause after it on its line,
\* remove_cited_on deletes them all and flag_infarction is False.
C7_CitedOnKeepsInfarcOfOtherLines ==
  Len(hist) >= 2 =>
    LET b == hist[1].text
        cited(i) == \E q \in 1..Len(b) : SameLineAfter(b, i, q) /\ IsCited(b[q])
    IN  /\ (\E i, q \in 1..Len(b) :
              i < q /\ IsInfarc(b[i]) /\ IsCited(b[q]) /\ ~cited(i))
             => flag_infarction(hist[2].text)
        /\ (\A i \in 1..Len(b) : IsInfarc(b[i]) => cited(i))
             => ~flag_infarction(hist[2].text)

\* The marker on one line, the clause on a later line: the marker stays.
C7_Witness ==
  /\ Len(hist) >= 2
  /\ LET b == hist[1].text
     IN  \E i, n, q \in 1..Len(b) :
           /\ i < n /\ n < q
           /\ IsInfarc(b[i]) /\ b[n] = NL /\ IsCited(b[q])
           /\ b[i] \in Tokens(hist[2].text)
           /\ ~ \E k \in 1..Len(hist[2].text) : IsCited(hist[2].text[k])

\* C9: when every marker of the extracted body stands before a cited-on
\* clause or 'age undetermined' on its own line, the strippers delete each
\* such line from its start through the annotation, everything else stays in
\* place, and mi_finding returns False.
C9_AnnotatedFindingsAreStripped ==
  (Done /\ excluded = "False" /\ Len(hist) >= 1 /\ hist[1].str
        /\ AllAnnotated(hist[1].text)) =>
    /\ Len(hist) = 4
    /\ hist[3].text = Pick(hist[1].text, LeftInPlace(hist[1].text))
    /\ result = "False"

\* A marker, its annotation, and text after it on the line that survives.
C9_Witness ==
  /\ Done
  /\ Len(hist) = 4
  /\ AllAnnotated(hist[1].text)
  /\ LET b == hist[1].text
     IN  \E i, q, k \in 1..Len(b) :
           /\ b[i] \in MarkerTokens /\ b[q] = AgeUndetermined /\ b[k] = TXT
           /\ SameLineAfter(b, i, q) /\ SameLineAfter(b, q, k)
           /\ hist[3].text = SubSeq(b, q + 1, Len(b))
  /\ result = "False"

ComparedPositions(text) == {i \in 1..Len(text) : text[i] = ComparedWith}

\* No marker of the text before its first 'When compared with'.
MarkersOnlyAfterCompared(text) ==
  /\ ComparedPositions(text) # {}
  /\ \E i \in 1..Len(text) : text[i] \in MarkerTokens
  /\ \A i \in 1..Len(text) :
       text[i] \in MarkerTokens => i > Min(ComparedPositions(text))

\* What remove_compared_with made of its input: the prefix before the first
\* 'When compared with', the whole input when there is none.
ComparedWithCut ==
  LET in == hist[3].text
      out == hist[4].text
  IN  /\ Len(out) <= Len(in)
      /\ out = SubSeq(in, 1, Len(out))
      /\ Len(out) = IF ComparedPositions(in) = {} THEN Len(in)
                    ELSE Min(ComparedPositions(in)) - 1
      /\ ComparedPositions(out) = {}

\* C10 as stated: remove_compared_with returns the prefix before the first
\* 'When compared with', the cleaned body holds none, and a marker that the
\* extracted body holds only after its first 'When compared with' never
\* makes mi_finding return True.
C10_MarkerAfterComparedInExtractedBody ==
  (Done /\ Len(hist) = 4) =>
    /\ ComparedWithCut
    /\ MarkersOnlyAfterCompared(hist[1].text) => result # "True"

\* C10 amended: remove_compared_with returns the prefix before the first
\* 'When compared with' of its input, the cleaned body holds none, and a
\* marker that occurs only after the first 'When compared with' of the text
\* that reaches remove_compared_with (the body after remove_cited_on and
\* remove_age_undetermined) never makes mi_finding return True.
C10_MarkerAfterComparedInStrippedBody ==
  (Done /\ Len(hist) = 4) =>
    /\ ComparedWithCut
    /\ MarkersOnlyAfterCompared(hist[3].text) => result = "False"

\* Text, then 'When compared with', then a marker on a later line: the text
\* is kept, the marker is cut off, the result is False.
C10_Witness ==
  /\ Done
  /\ Len(hist) = 4
  /\ MarkersOnlyAfterCompared(hist[3].text)
  /\ \E i, n, k \in 1..Len(hist[3].text) :
       /\ i < n /\ n < k
       /\ hist[3].text[i] = ComparedWith
       /\ hist[3].text[n] = NL
       /\ hist[3].text[k] \in MarkerTokens
  /\ hist[4].text # <<>>
  /\ result = "False"

====
